---- MODULE Spec2Model ----
(***************************************************************************)
(* Model of markers_extractor.py: the SESX project parser, the WAV cue     *)
(* reader, the time formatter, the CSV writer and the three handlers of    *)
(* MarkersExtractorGUI (browse, analyze, extract).                          *)
(*                                                                         *)
(* Strings are TLA+ strings; Python's str methods used by the program are  *)
(* computed character by character (SubSeq, Len, \o).  Python dicts keep    *)
(* insertion order, so a dict is a sequence of <<key, value>> pairs with    *)
(* unique keys.  A Python float that is the quotient position/sample_rate   *)
(* is kept as the exact pair (position, sample_rate).                       *)
(***************************************************************************)
EXTENDS Integers, Sequences, FiniteSets, TLC

VARIABLES
    sesx_file_path,  \* self.sesx_file_path (tk.StringVar)
    clips_info,      \* self.clips_info
    wav_files,       \* self.wav_files
    all_markers,     \* self.all_markers
    csv_files,       \* the output files on disk: path -> lines
    dialog,          \* the message box the last handler showed
    tree,            \* self.tree: the clip rows analyze displays
    run,             \* the locals of the last extract_markers run
    args,            \* the arguments of a function called on its own
    result           \* what that function returned

vars == <<sesx_file_path, clips_info, wav_files, all_markers, csv_files,
          dialog, tree, run, args, result>>

gui_vars == <<sesx_file_path, clips_info, wav_files, all_markers, csv_files,
              dialog, tree, run>>

----------------------------------------------------------------------------
(* Python str and dict operations                                          *)

Upper == "ABCDEFGHIJKLMNOPQRSTUVWXYZ"
Lower == "abcdefghijklmnopqrstuvwxyz"

\* one character of str.lower()
LowerChar(c) ==
    IF \E i \in 1..Len(Upper) : SubSeq(Upper, i, i) = c
    THEN LET i == CHOOSE j \in 1..Len(Upper) : SubSeq(Upper, j, j) = c
         IN  SubSeq(Lower, i, i)
    ELSE c

RECURSIVE StrLower(_)
\* str.lower()
StrLower(s) ==
    IF Len(s) = 0 THEN ""
    ELSE LowerChar(SubSeq(s, 1, 1)) \o StrLower(SubSeq(s, 2, Len(s)))

\* str.startswith(p)
StartsWith(s, p) == Len(p) <= Len(s) /\ SubSeq(s, 1, Len(p)) = p

\* str.endswith(p)
EndsWith(s, p) ==
    Len(p) <= Len(s) /\ SubSeq(s, Len(s) - Len(p) + 1, Len(s)) = p

\* needle in hay
StrIn(needle, hay) ==
    \E i \in 1..(Len(hay) - Len(needle) + 1) :
        SubSeq(hay, i, i + Len(needle) - 1) = needle

RECURSIVE StrRemove(_, _)
\* s.replace(old, ''): every non-overlapping occurrence, left to right
StrRemove(s, old) ==
    IF Len(s) < Len(old) THEN s
    ELSE IF StartsWith(s, old)
         THEN StrRemove(SubSeq(s, Len(old) + 1, Len(s)), old)
         ELSE SubSeq(s, 1, 1) \o StrRemove(SubSeq(s, 2, Len(s)), old)

\* the position of the last occurrence of character c in s, 0 if none
LastIndex(s, c) ==
    LET at == {i \in 1..Len(s) : SubSeq(s, i, i) = c}
    IN  IF at = {} THEN 0 ELSE CHOOSE i \in at : \A j \in at : j <= i

\* d.get(k, default) on an insertion-ordered dict
DictGet(d, k, default) ==
    IF \E i \in 1..Len(d) : d[i][1] = k
    THEN d[CHOOSE i \in 1..Len(d) : d[i][1] = k][2]
    ELSE default

\* d[k] = v: an existing key keeps its place, a new key goes last
DictSet(d, k, v) ==
    IF \E i \in 1..Len(d) : d[i][1] = k
    THEN [i \in 1..Len(d) |-> IF d[i][1] = k THEN <<k, v>> ELSE d[i]]
    ELSE Append(d, <<k, v>>)

DictKeys(d) == {d[i][1] : i \in 1..Len(d)}

----------------------------------------------------------------------------
(* os.path (POSIX)                                                          *)

\* os.path.basename
basename(p) == SubSeq(p, LastIndex(p, "/") + 1, Len(p))

\* os.path.dirname
dirname(p) ==
    LET i == LastIndex(p, "/")
    IN  IF i = 0 THEN ""
        ELSE IF i = 1 THEN "/"
        ELSE SubSeq(p, 1, i - 1)

\* os.path.join(a, b)
join(a, b) ==
    IF StartsWith(b, "/") THEN b
    ELSE IF a = "" \/ EndsWith(a, "/") THEN a \o b
    ELSE a \o "/" \o b

\* os.path.splitext(p)[0]: the extension starts at the last dot of the last
\* component, unless only dots precede it there
splitext_root(p) ==
    LET sep == LastIndex(p, "/")
        dot == LastIndex(p, ".")
    IN  IF dot > sep /\ (\E i \in (sep + 1)..(dot - 1) : SubSeq(p, i, i) # ".")
        THEN SubSeq(p, 1, dot - 1)
        ELSE p

----------------------------------------------------------------------------
(* format_time                                                              *)

\* the decimal digits of n, zero-padded on the left to width w
RECURSIVE ZeroPad(_, _)
ZeroPad(s, w) == IF Len(s) >= w THEN s ELSE ZeroPad("0" \o s, w)

\* format_time(num / den), den > 0.  The quotient is never exactly half-way
\* between two milliseconds for the inputs drawn (see NoTie), so the
\* correctly rounded "%06.3f" of the float is the rounding of the quotient.
format_time(num, den) ==
    IF num < 0 THEN "00:00.000"
    ELSE LET minutes == num \div (60 * den)            \* int(seconds // 60)
             secs    == num % (60 * den)               \* seconds % 60, in 1/den s
             whole   == secs \div den
             frac    == secs % den
             millis  == whole * 1000 + (frac * 2000 + den) \div (2 * den)
         IN  ZeroPad(ToString(minutes), 2) \o ":"
             \o ZeroPad(ToString(millis \div 1000), 2) \o "."
             \o ZeroPad(ToString(millis % 1000), 3)

\* num / den is not half-way between two multiples of 0.001
NoTie(num, den) == num < 0 \/ ((num % den) * 2000) % (2 * den) # den

----------------------------------------------------------------------------
(* int(float(s)) for the attribute strings of a project file                *)

Digits == "0123456789"

IsDigit(c) == \E i \in 1..Len(Digits) : SubSeq(Digits, i, i) = c

DigitValue(c) == (CHOOSE i \in 1..Len(Digits) : SubSeq(Digits, i, i) = c) - 1

AllDigits(s) == \A i \in 1..Len(s) : IsDigit(SubSeq(s, i, i))

RECURSIVE DigitsToInt(_)
DigitsToInt(s) ==
    IF Len(s) = 0 THEN 0
    ELSE DigitsToInt(SubSeq(s, 1, Len(s) - 1)) * 10
         + DigitValue(SubSeq(s, Len(s), Len(s)))

\* s without a leading sign
Unsigned(s) ==
    IF StartsWith(s, "-") \/ StartsWith(s, "+") THEN SubSeq(s, 2, Len(s)) ELSE s

\* float(s) does not raise ValueError: an optional sign, then digits with at
\* most one point and at least one digit (the decimal forms; the attribute
\* strings drawn hold no exponent, blank, underscore, inf or nan)
IsFloat(s) ==
    LET u   == Unsigned(s)
        dot == LastIndex(u, ".")
    IN  IF dot = 0 THEN Len(u) > 0 /\ AllDigits(u)
        ELSE /\ AllDigits(SubSeq(u, 1, dot - 1))
             /\ AllDigits(SubSeq(u, dot + 1, Len(u)))
             /\ Len(u) > 1

\* int(float(s)) for IsFloat(s): the fraction is cut off, towards zero
IntOfFloat(s) ==
    LET u    == Unsigned(s)
        dot  == LastIndex(u, ".")
        ipart == IF dot = 0 THEN u ELSE SubSeq(u, 1, dot - 1)
        n    == DigitsToInt(ipart)
    IN  IF StartsWith(s, "-") THEN 0 - n ELSE n

----------------------------------------------------------------------------
(* parse_sesx_file                                                          *)

\* element.get(attr, default) of an element kept as a record of the
\* attributes it has
Attr(elem, attr, default) ==
    IF attr \in DOMAIN elem THEN elem[attr] ELSE default

\* name.replace('.WAV', '').replace('.wav', '')
CleanClipName(name) == StrRemove(StrRemove(name, ".WAV"), ".wav")

\* the truth value of start_point: the default 0 and the empty string are false
StartPointTruthy(elem) ==
    "startPoint" \in DOMAIN elem /\ elem.startPoint # ""

RECURSIVE ParseClipsBreak(_, _)
\* the loop leaving at the first clip it skips
ParseClipsBreak(clips, d) ==
    IF Len(clips) = 0 THEN [clips_info |-> d, raised |-> FALSE]
    ELSE LET audio_clip == Head(clips)
             clean_name == CleanClipName(Attr(audio_clip, "name", ""))
         IN  IF clean_name # "" /\ StartPointTruthy(audio_clip)
             THEN IF IsFloat(audio_clip.startPoint)
                  THEN ParseClipsBreak(Tail(clips),
                           DictSet(d, clean_name, IntOfFloat(audio_clip.startPoint)))
                  ELSE [clips_info |-> d, raised |-> TRUE]
             ELSE [clips_info |-> d, raised |-> FALSE]

RECURSIVE ParseClips(_, _)
\* the loop over root.findall('.//audioClip'), from dict d on: the dict built
\* and whether int(float(start_point)) raised (which leaves the loop)
ParseClips(clips, d) ==
    IF Len(clips) = 0 THEN [clips_info |-> d, raised |-> FALSE]
    ELSE LET audio_clip == Head(clips)
             name       == Attr(audio_clip, "name", "")
             clean_name == CleanClipName(name)
         IN  IF clean_name # "" /\ StartPointTruthy(audio_clip)
             THEN IF IsFloat(audio_clip.startPoint)
                  THEN ParseClips(Tail(clips),
                           DictSet(d, clean_name, IntOfFloat(audio_clip.startPoint)))
                  ELSE [clips_info |-> d, raised |-> TRUE]
             ELSE ParseClips(Tail(clips), d)

\* os.path.abspath of a path with no '.', '..' or doubled '/' component
Cwd == "/home"
abspath(p) == IF StartsWith(p, "/") THEN p ELSE join(Cwd, p)

RECURSIVE ParseFiles(_, _, _, _)
\* the loop over root.findall('.//file'); exists is the set of paths on disk
ParseFiles(files, sesx_file_path_, exists, acc) ==
    IF Len(files) = 0 THEN acc
    ELSE LET relative_path == Attr(Head(files), "relativePath", "")
             sesx_dir      == dirname(abspath(sesx_file_path_))
             wav_path      == join(sesx_dir, relative_path)
         IN  ParseFiles(Tail(files), sesx_file_path_, exists,
                 IF EndsWith(StrLower(relative_path), ".wav") /\ wav_path \in exists
                 THEN Append(acc, wav_path) ELSE acc)

\* parse_sesx_file(sesx_file_path) where doc is what ET.parse finds at the
\* path: [parses |-> FALSE] when it raises, else the audioClip and file
\* elements in document order.  caught: the except clause ran.
parse_sesx_file(sesx_file_path_, doc, exists) ==
    IF ~doc.parses
    THEN [clips_info |-> <<>>, wav_files |-> <<>>, caught |-> TRUE]
    ELSE LET c == ParseClips(doc.clips, <<>>)
         IN  IF c.raised
             THEN [clips_info |-> c.clips_info, wav_files |-> <<>>, caught |-> TRUE]
             ELSE [clips_info |-> c.clips_info,
                   wav_files  |-> ParseFiles(doc.files, sesx_file_path_, exists, <<>>),
                   caught     |-> FALSE]

----------------------------------------------------------------------------
(* extract_markers_from_wav                                                  *)

DefaultSampleRate == 48000

\* {item.name: item[field]} over a label or range list; a later item with
\* the same name replaces the value
RECURSIVE DictOf(_, _, _)
DictOf(items, field, d) ==
    IF Len(items) = 0 THEN d
    ELSE DictOf(Tail(items), field, DictSet(d, Head(items).name, Head(items)[field]))

\* the marker_info dict of one cue
MarkerInfo(wav_file_path, marker_text, position, sample_rate, duration) ==
    [filename       |-> basename(wav_file_path),
     name           |-> marker_text,
     position       |-> position,
     time_seconds   |-> <<position, sample_rate>>,
     time_formatted |-> format_time(position, sample_rate),
     type           |-> "Cue",
     sample_rate    |-> sample_rate,
     duration       |-> duration]

RECURSIVE ReadCues(_, _, _, _, _, _)
\* the loop over cue_list from the markers list acc on: the list built and
\* whether position / sample_rate raised ZeroDivisionError (which leaves the
\* loop with the markers appended so far)
ReadCues(cue_list, labels_dict, ranges_dict, sample_rate, wav_file_path, acc) ==
    IF Len(cue_list) = 0 THEN [markers |-> acc, raised |-> FALSE]
    ELSE LET cue_marker  == Head(cue_list)
             marker_name == cue_marker.name
             marker_text == DictGet(labels_dict, marker_name,
                                    "Marker " \o ToString(marker_name))
             duration    == DictGet(ranges_dict, marker_name, 0)
         IN  IF sample_rate = 0
             THEN [markers |-> acc, raised |-> TRUE]
             ELSE ReadCues(Tail(cue_list), labels_dict, ranges_dict, sample_rate,
                      wav_file_path,
                      Append(acc, MarkerInfo(wav_file_path, marker_text,
                                             cue_marker.position, sample_rate,
                                             duration)))

\* the reader without its except clause: a failure leaves the function
extract_markers_from_wav_uncaught(wav_file_path, wav) ==
    IF ~wav.readable
    THEN [markers |-> <<>>, caught |-> TRUE, propagated |-> TRUE]
    ELSE LET sample_rate == IF "sample_rate" \in DOMAIN wav
                            THEN wav.sample_rate ELSE DefaultSampleRate
         IN  IF "cues" \in DOMAIN wav
             THEN LET r == ReadCues(wav.cues,
                                    DictOf(wav.labels, "text", <<>>),
                                    DictOf(wav.ranges, "length", <<>>),
                                    sample_rate, wav_file_path, <<>>)
                  IN  [markers |-> r.markers, caught |-> r.raised,
                       propagated |-> r.raised]
             ELSE [markers |-> <<>>, caught |-> FALSE, propagated |-> FALSE]

\* extract_markers_from_wav(wav_file_path) where wav is what WavInfoReader
\* finds at the path: [readable |-> FALSE] when it raises, else the fmt
\* chunk's sample rate (when it has one) and the cue, label and range lists
\* (when the file has cues).  propagated: an exception left the function.
extract_markers_from_wav(wav_file_path, wav) ==
    IF ~wav.readable
    THEN [markers |-> <<>>, caught |-> TRUE, propagated |-> FALSE]
    ELSE LET sample_rate == IF "sample_rate" \in DOMAIN wav
                            THEN wav.sample_rate ELSE DefaultSampleRate
         IN  IF "cues" \in DOMAIN wav
             THEN LET r == ReadCues(wav.cues,
                                    DictOf(wav.labels, "text", <<>>),
                                    DictOf(wav.ranges, "length", <<>>),
                                    sample_rate, wav_file_path, <<>>)
                  IN  [markers |-> r.markers, caught |-> r.raised,
                       propagated |-> FALSE]
             ELSE [markers |-> <<>>, caught |-> FALSE, propagated |-> FALSE]

----------------------------------------------------------------------------
(* save_markers_to_csv                                                       *)

CsvHeader == <<"Name", "Start", "Duration", "Time Format", "Type", "Description">>

RECURSIVE TabJoin(_)
\* '\t'.join(row) of a row of strings
TabJoin(row) ==
    IF Len(row) = 0 THEN ""
    ELSE IF Len(row) = 1 THEN row[1]
    ELSE row[1] \o "\t" \o TabJoin(Tail(row))

\* str(n) of an int
Str(n) == IF n < 0 THEN "-" \o ToString(0 - n) ELSE ToString(n)

\* the row with a range description whatever the duration
CsvRowAlwaysRange(marker) ==
    <<marker.name, Str(marker.position), Str(marker.duration),
      Str(marker.sample_rate) \o " Hz", "Cue",
      "Range: " \o format_time(marker.duration, marker.sample_rate)>>

\* the row of one marker
CsvRow(marker) ==
    LET sample_rate == marker.sample_rate
        duration    == marker.duration
        description == IF duration > 0
                       THEN "Range: " \o format_time(duration, sample_rate)
                       ELSE Attr(marker, "description", "")
    IN  <<marker.name, Str(marker.position), Str(duration),
          Str(sample_rate) \o " Hz", "Cue", description>>

\* the lines save_markers_to_csv writes for a non-empty list
CsvLines(markers) ==
    <<TabJoin(CsvHeader)>> \o [i \in 1..Len(markers) |-> TabJoin(CsvRow(markers[i]))]

\* the writer without its check for an empty list
save_markers_to_csv_unguarded(markers, output_file, files, can_open) ==
    IF ~can_open
    THEN [files |-> files, wrote |-> FALSE, raised |-> TRUE]
    ELSE [files  |-> [files EXCEPT ![output_file] = CsvLines(markers)],
          wrote  |-> TRUE,
          raised |-> FALSE]

\* save_markers_to_csv(markers, output_file) on the disk `files` (path ->
\* lines, <<>> for a file that does not exist; a written file has its header
\* line).  can_open: open(output_file, 'w') succeeds.  raised: it did not,
\* and the OSError leaves the function.
save_markers_to_csv(markers, output_file, files, can_open) ==
    IF Len(markers) = 0
    THEN [files |-> files, wrote |-> FALSE, raised |-> FALSE]
    ELSE IF ~can_open
         THEN [files |-> files, wrote |-> FALSE, raised |-> TRUE]
         ELSE [files  |-> [files EXCEPT ![output_file] = CsvLines(markers)],
               wrote  |-> TRUE,
               raised |-> FALSE]

----------------------------------------------------------------------------
(* The files on disk while the program runs                                 *)

\* what WavInfoReader finds at each WAV path
WavDisk ==
    ("/p/Song_A.wav" :>
        [readable |-> TRUE, sample_rate |-> 48000,
         cues   |-> <<[name |-> 1, position |-> 0],
                      [name |-> 2, position |-> 24000]>>,
         labels |-> <<[name |-> 1, text |-> "Intro"]>>,
         ranges |-> <<[name |-> 2, length |-> 12000]>>])
    @@ ("/p/Take2.WAV" :>
        [readable |-> TRUE,
         cues   |-> <<[name |-> 7, position |-> 96]>>,
         labels |-> <<[name |-> 7, text |-> "Verse"], [name |-> 7, text |-> "Chorus"]>>,
         ranges |-> <<>>])
    @@ ("/p/bad.wav"    :> [readable |-> FALSE])
    @@ ("/p/zero.wav"   :>
        [readable |-> TRUE, sample_rate |-> 0,
         cues   |-> <<[name |-> 1, position |-> 5]>>,
         labels |-> <<>>, ranges |-> <<>>])
    @@ ("/p/silent.wav" :> [readable |-> TRUE, sample_rate |-> 44100])

\* os.path.exists of a WAV path
WavExists == DOMAIN WavDisk

\* what ET.parse finds at each project path
SesxDisk ==
    ("/p/a.sesx" :>
        [parses |-> TRUE,
         clips  |-> <<[name |-> "Song_A.wav", startPoint |-> "48000"]>>,
         files  |-> <<[relativePath |-> "Song_A.wav"]>>])
    @@ ("/p/b.sesx" :>
        [parses |-> TRUE,
         clips  |-> <<[name |-> "song", startPoint |-> "100"],
                      [name |-> "take2.wav", startPoint |-> "200.9"],
                      [name |-> "Song_A.WAV", startPoint |-> "300"],
                      [startPoint |-> "400"]>>,
         files  |-> <<[relativePath |-> "bad.wav"],
                      [relativePath |-> "Song_A.wav"],
                      [relativePath |-> "zero.wav"],
                      [relativePath |-> "Take2.WAV"],
                      [relativePath |-> "silent.wav"],
                      [relativePath |-> "gone.wav"],
                      [relativePath |-> "notes.txt"]>>])
    @@ ("/ro/c.sesx" :>
        [parses |-> TRUE,
         clips  |-> <<[name |-> "silent", startPoint |-> "5"]>>,
         files  |-> <<[relativePath |-> "/p/silent.wav"],
                      [relativePath |-> "/p/bad.wav"]>>])
    @@ ("/ro/bad.sesx" :> [parses |-> FALSE])

\* os.path.exists of a project path
SesxExists == DOMAIN SesxDisk

\* what the user can put in the path entry: a project on disk, or a path
\* that is not on disk
EntryPaths == SesxExists \cup {"/ro/missing.sesx"}

\* open(path, 'w') succeeds unless the directory is read-only
CanOpen(path) == dirname(path) # "/ro"

\* the output path extract_markers builds from the path entry
OutputFile(sesx_path) ==
    LET sesx_dir  == dirname(sesx_path)
        sesx_name == splitext_root(basename(sesx_path))
    IN  join(sesx_dir, sesx_name \o " timeline markers.csv")

\* the output paths the program can be made to write
OutputPaths == {OutputFile(sp) : sp \in EntryPaths \cup {""}}

\* what parse_sesx_file returns for each project on disk
ParsedDisk ==
    [p \in SesxExists |-> parse_sesx_file(p, SesxDisk[p], WavExists)]

\* what extract_markers_from_wav returns for each WAV file on disk
ReadDisk ==
    [w \in WavExists |-> extract_markers_from_wav(w, WavDisk[w])]

----------------------------------------------------------------------------
(* MarkersExtractorGUI.  Tk runs one handler at a time; each handler is one  *)
(* step (self.root.update() at its start is taken to find no pending        *)
(* event).                                                                  *)

\* run: whether extract_markers has run past its guard; then the output
\* path, clip map and WAV list it used, its all_markers list, whether it
\* wrote the file, and whether the run before it used the same clip map and
\* WAV list
NoRun ==
    [done |-> FALSE, output_file |-> "", clips |-> <<>>, wavs |-> <<>>,
     markers |-> <<>>, wrote |-> FALSE, repeat |-> FALSE]

\* whether an extract run now repeats the last one's clip map and WAV list
Repeats == run.done /\ run.clips = clips_info /\ run.wavs = wav_files

\* the first wav_path of wav_files whose lower-cased base name holds the
\* lower-cased clip name, "" (None) if there is none
RECURSIVE FindWav(_, _)
FindWav(clip_name, wavs) ==
    IF Len(wavs) = 0 THEN ""
    ELSE IF StrIn(StrLower(clip_name), StrLower(basename(Head(wavs))))
         THEN Head(wavs)
         ELSE FindWav(clip_name, Tail(wavs))

\* the text of one marker row of the tree
MarkerText(marker) ==
    marker.name \o " - " \o marker.time_formatted \o
    (IF marker.duration > 0
     THEN " (range: " \o format_time(marker.duration, marker.sample_rate) \o ")"
     ELSE "")

RECURSIVE TreeRows(_, _)
\* the clip rows analyze_sesx_file inserts: the clips that have a WAV file
\* with markers
TreeRows(clips, wavs) ==
    IF Len(clips) = 0 THEN <<>>
    ELSE LET clip_name   == Head(clips)[1]
             start_point == Head(clips)[2]
             wav_file    == FindWav(clip_name, wavs)
             markers     == IF wav_file # "" /\ wav_file \in WavExists
                            THEN ReadDisk[wav_file].markers
                            ELSE <<>>
             rest        == TreeRows(Tail(clips), wavs)
         IN  IF Len(markers) > 0
             THEN <<[text |-> clip_name, start |-> start_point, wav |-> wav_file,
                     children |-> [i \in 1..Len(markers) |-> MarkerText(markers[i])]]>>
                  \o rest
             ELSE rest

\* the adjustment that moves the position and leaves the times as read
AdjustMarkerStaleTime(marker, clip_start) ==
    [marker EXCEPT !.position = marker.position + clip_start]

\* the offset adjustment of one marker
AdjustMarker(marker, clip_start) ==
    LET position == marker.position + clip_start
    IN  [marker EXCEPT !.position       = position,
                       !.time_seconds   = <<position, marker.sample_rate>>,
                       !.time_formatted = format_time(position, marker.sample_rate)]

\* the clip start extract_markers looks up for a WAV file
ClipStart(wav_file, clips) ==
    LET filename       == basename(wav_file)
        clean_filename == StrRemove(StrRemove(filename, ".wav"), ".WAV")
    IN  DictGet(clips, clean_filename, 0)

RECURSIVE CollectMarkers(_, _, _)
\* the loop of extract_markers over self.wav_files from the list acc on: the
\* markers collected and whether an exception left the loop
CollectMarkers(wavs, clips, acc) ==
    IF Len(wavs) = 0 THEN [markers |-> acc, raised |-> FALSE]
    ELSE LET wav_file == Head(wavs)
         IN  IF wav_file \notin WavExists
             THEN CollectMarkers(Tail(wavs), clips, acc)
             ELSE LET clip_start == ClipStart(wav_file, clips)
                      r          == ReadDisk[wav_file]
                  IN  IF r.propagated
                      THEN [markers |-> acc, raised |-> TRUE]
                      ELSE CollectMarkers(Tail(wavs), clips,
                               acc \o [i \in 1..Len(r.markers) |->
                                          AdjustMarker(r.markers[i], clip_start)])

\* no function has been called on its own
NoCall == [done |-> FALSE]

\* MarkersExtractorGUI.__init__, on a disk with no output file yet
GuiInit ==
    /\ sesx_file_path = ""
    /\ clips_info = <<>>
    /\ wav_files = <<>>
    /\ all_markers = <<>>
    /\ csv_files = [f \in OutputPaths |-> <<>>]
    /\ dialog = "none"
    /\ tree = <<>>
    /\ run = NoRun

Init ==
    /\ GuiInit
    /\ args = NoCall
    /\ result = NoCall

\* the "Browse" button: the file dialog returns a project on disk, or ""
browse_sesx_file ==
    /\ \E filename \in SesxExists \cup {""} :
          sesx_file_path' = IF filename # "" THEN filename ELSE sesx_file_path
    /\ UNCHANGED <<clips_info, wav_files, all_markers, csv_files, dialog, tree,
                   run, args, result>>

\* the path entry, bound to self.sesx_file_path: the user types a path
edit_sesx_entry ==
    /\ \E text \in EntryPaths : sesx_file_path' = text
    /\ UNCHANGED <<clips_info, wav_files, all_markers, csv_files, dialog, tree,
                   run, args, result>>

\* the "Analyze" button
analyze_sesx_file ==
    LET sesx_path == sesx_file_path
    IN  IF sesx_path = ""
        THEN /\ dialog' = "error: select a SESX file"
             /\ UNCHANGED <<sesx_file_path, clips_info, wav_files, all_markers,
                            csv_files, tree, run, args, result>>
        ELSE IF sesx_path \notin SesxExists
        THEN /\ dialog' = "error: SESX file not found"
             /\ UNCHANGED <<sesx_file_path, clips_info, wav_files, all_markers,
                            csv_files, tree, run, args, result>>
        ELSE LET r == ParsedDisk[sesx_path]
             IN  /\ clips_info' = r.clips_info
                 /\ wav_files' = r.wav_files
                 /\ tree' = TreeRows(r.clips_info, r.wav_files)
                 /\ dialog' = "none"
                 /\ UNCHANGED <<sesx_file_path, all_markers, csv_files, run,
                                args, result>>

\* a run that kept the list of the run before it
KeptList == run.markers

\* all_markers = []: the list of a run starts empty
FreshList == <<>>

\* the "Extract" button
extract_markers ==
    IF Len(clips_info) = 0 \/ Len(wav_files) = 0
    THEN /\ dialog' = "error: analyze the SESX file first"
         /\ UNCHANGED <<sesx_file_path, clips_info, wav_files, all_markers,
                        csv_files, tree, run, args, result>>
    ELSE LET sesx_path   == sesx_file_path
             output_file == OutputFile(sesx_path)
             c           == CollectMarkers(wav_files, clips_info, FreshList)
             s           == save_markers_to_csv(c.markers, output_file, csv_files,
                                                CanOpen(output_file))
             ran         == [done |-> TRUE, output_file |-> output_file,
                             clips |-> clips_info, wavs |-> wav_files,
                             markers |-> c.markers, wrote |-> FALSE,
                             repeat |-> Repeats]
         IN  /\ IF c.raised
                THEN /\ dialog' = "error: extraction failed"
                     /\ csv_files' = csv_files
                     /\ run' = ran
                ELSE IF Len(c.markers) > 0
                THEN /\ csv_files' = s.files
                     /\ dialog' = IF s.raised THEN "error: extraction failed"
                                  ELSE "info: markers extracted"
                     /\ run' = [ran EXCEPT !.wrote = s.wrote]
                ELSE /\ csv_files' = csv_files
                     /\ dialog' = "warning: no markers found"
                     /\ run' = ran
             /\ UNCHANGED <<sesx_file_path, clips_info, wav_files, all_markers,
                            tree, args, result>>

Next ==
    \/ browse_sesx_file
    \/ edit_sesx_entry
    \/ analyze_sesx_file
    \/ extract_markers

Spec == Init /\ [][Next]_vars

----------------------------------------------------------------------------
(* parse_sesx_file called on its own, on project files drawn from bounded  *)
(* sets of audioClip and file elements                                      *)

MaxClips == 3

ClipNames == {"A.wav", "A", "B.Wav"}
StartPoints == {"7.9", "12", "x"}

\* the audioClip elements drawn: with or without a name, with or without a
\* startPoint, the startPoint a number or not, and one each with a name
\* that is only an extension and with an empty startPoint
ClipElems ==
    {[name |-> n, startPoint |-> sp] : n \in ClipNames, sp \in StartPoints}
    \cup {[name |-> n] : n \in ClipNames}
    \cup {[startPoint |-> sp] : sp \in StartPoints}
    \cup {[other |-> ""],
          [name |-> ".wav", startPoint |-> "12"],
          [name |-> "A", startPoint |-> ""]}

SeqsUpTo(S, n) == UNION {[1..k -> S] : k \in 0..n}

\* the file elements of the project files drawn
FileElems ==
    <<[relativePath |-> "Song_A.wav"], [relativePath |-> "gone.wav"],
      [relativePath |-> "notes.txt"], [other |-> ""],
      [relativePath |-> "Take2.WAV"]>>

ParseDocs ==
    {[parses |-> FALSE]}
    \cup {[parses |-> TRUE, clips |-> c, files |-> FileElems] :
             c \in SeqsUpTo(ClipElems, MaxClips)}

InitParse ==
    /\ GuiInit
    /\ args \in {[done |-> FALSE, sesx_file_path |-> "/p/x.sesx", doc |-> d] :
                    d \in ParseDocs}
    /\ result = NoCall

CallParse ==
    /\ ~result.done
    /\ result' = [done |-> TRUE,
                  ret  |-> parse_sesx_file(args.sesx_file_path, args.doc, WavExists)]
    /\ UNCHANGED <<gui_vars, args>>

NextParse == CallParse

SpecParse == InitParse /\ [][NextParse]_vars

----------------------------------------------------------------------------
(* format_time called on its own, on two positions of one sample rate       *)

FormatWindow == 2

FormatRates == {1, 3, 2001, 48000}
FormatMinutes == {0, 1, 99}

\* the positions drawn for a rate: within FormatWindow samples of a minute
\* boundary
FormatPositions(rate) ==
    {p \in {m * 60 * rate + d : m \in FormatMinutes,
                                d \in (0 - FormatWindow)..FormatWindow} :
        p >= 0 /\ NoTie(p, rate)}

InitFormat ==
    /\ GuiInit
    /\ args \in {[done |-> FALSE, sample_rate |-> r, p1 |-> a, p2 |-> b] :
                    r \in FormatRates,
                    a \in UNION {FormatPositions(q) : q \in FormatRates},
                    b \in UNION {FormatPositions(q) : q \in FormatRates}}
    /\ args.p1 \in FormatPositions(args.sample_rate)
    /\ args.p2 \in FormatPositions(args.sample_rate)
    /\ args.p1 <= args.p2
    /\ result = NoCall

CallFormat ==
    /\ ~result.done
    /\ result' = [done |-> TRUE,
                  t1   |-> format_time(args.p1, args.sample_rate),
                  t2   |-> format_time(args.p2, args.sample_rate)]
    /\ UNCHANGED <<gui_vars, args>>

NextFormat == CallFormat

SpecFormat == InitFormat /\ [][NextFormat]_vars

----------------------------------------------------------------------------
(* save_markers_to_csv called on its own, on marker lists drawn from        *)
(* bounded sets                                                             *)

MaxMarkers == 2

CsvNames == {"Intro", "Marker 2"}
CsvPositions == {0, 48300}
CsvDurations == {0, 12000}
CsvRates == {48000, 2001}

CsvMarkers ==
    {MarkerInfo("/p/Song_A.wav", n, p, r, d) :
        n \in CsvNames, p \in CsvPositions, r \in CsvRates, d \in CsvDurations}

InitCsv ==
    /\ GuiInit
    /\ args \in {[done |-> FALSE, markers |-> m, output_file |-> OutputFile("/p/a.sesx")] :
                    m \in SeqsUpTo(CsvMarkers, MaxMarkers)}
    /\ result = NoCall

CallCsv ==
    /\ ~result.done
    /\ LET s == save_markers_to_csv(args.markers, args.output_file, csv_files,
                                    CanOpen(args.output_file))
       IN  /\ csv_files' = s.files
           /\ result' = [done |-> TRUE, wrote |-> s.wrote, raised |-> s.raised]
    /\ UNCHANGED <<sesx_file_path, clips_info, wav_files, all_markers, dialog,
                   tree, run, args>>

NextCsv == CallCsv

SpecCsv == InitCsv /\ [][NextCsv]_vars

----------------------------------------------------------------------------
(* Properties                                                               *)

\* the positions of a marker list
Positions(markers) == [i \in 1..Len(markers) |-> markers[i].position]

\* the start of the first clip, in insertion order, whose name is a
\* case-insensitive substring of the name, 0 if there is none
RECURSIVE FirstSubstringStart(_, _)
FirstSubstringStart(clips, name) ==
    IF Len(clips) = 0 THEN 0
    ELSE IF StrIn(StrLower(Head(clips)[1]), StrLower(name))
         THEN Head(clips)[2]
         ELSE FirstSubstringStart(Tail(clips), name)

RECURSIVE SubstringPositions(_, _)
\* the positions of a run over wavs whose offsets are found by substring match
SubstringPositions(wavs, clips) ==
    IF Len(wavs) = 0 THEN <<>>
    ELSE LET raw   == ReadDisk[Head(wavs)].markers
             start == FirstSubstringStart(clips, splitext_root(basename(Head(wavs))))
         IN  [i \in 1..Len(raw) |-> raw[i].position + start]
             \o SubstringPositions(Tail(wavs), clips)

\* C1: every marker of an extract run has its raw position plus the start of
\* the first clip, in clip-map order, whose name is a case-insensitive
\* substring of the WAV file's base name without extension (0 if none).
C1_OffsetBySubstringMatch ==
    run.done => Positions(run.markers) = SubstringPositions(run.wavs, run.clips)

\* C2: when parse_sesx_file hits a failure it returns an empty clip map and
\* an empty WAV list, whatever it had processed before the failure.
C2_FailureReturnsEmpty ==
    (result.done /\ result.ret.caught)
        => (result.ret.clips_info = <<>> /\ result.ret.wav_files = <<>>)

\* reading the WAV file raised no exception
ReadsCleanly(w) == ~ReadDisk[w].caught

\* C3: a WAV file whose reading fails gives no marker and stops nothing: the
\* run's markers are those of the run over the list without the failing
\* files, and no exception leaves the reader.
C3_FailingWavIsolated ==
    /\ \A w \in WavExists :
          /\ ~ReadDisk[w].propagated
          /\ ReadDisk[w].caught => ReadDisk[w].markers = <<>>
    /\ run.done =>
          run.markers = CollectMarkers(SelectSeq(run.wavs, ReadsCleanly),
                                       run.clips, <<>>).markers

C3_Witness ==
    /\ run.done
    /\ \E i, j, k \in 1..Len(run.wavs) :
          /\ i < j /\ j < k
          /\ ~ReadsCleanly(run.wavs[i])
          /\ ~ReadsCleanly(run.wavs[j])
          /\ ReadDisk[run.wavs[k]].markers # <<>>
    /\ Len(run.markers) = 3
    /\ run.wrote

\* an extract_markers step that passed its guard
ExtractRan == extract_markers /\ Len(clips_info) > 0 /\ Len(wav_files) > 0

\* C4: a run that collects no marker writes no file and ends with the "no
\* markers found" warning; save_markers_to_csv writes nothing for an empty
\* list.
C4_NoMarkersNoWrite ==
    /\ [](\A f \in OutputPaths :
             save_markers_to_csv(<<>>, f, csv_files, CanOpen(f))
                 = [files |-> csv_files, wrote |-> FALSE, raised |-> FALSE])
    /\ [][(ExtractRan /\ run'.markers = <<>>)
             => /\ csv_files' = csv_files
                /\ ~run'.wrote
                /\ dialog' = "warning: no markers found"]_vars

C4_Witness ==
    /\ run.done
    /\ run.markers = <<>>
    /\ dialog = "warning: no markers found"
    /\ csv_files[run.output_file] # <<>>

\* the case of C5: clip map {"Song_A": 48000} and the file Song_A.wav whose
\* first marker is read at position 0 with sample rate 48000
C5_Case ==
    /\ run.done
    /\ run.clips = <<<<"Song_A", 48000>>>>
    /\ run.wavs = <<"/p/Song_A.wav">>
    /\ ReadDisk["/p/Song_A.wav"].markers[1].position = 0
    /\ ReadDisk["/p/Song_A.wav"].markers[1].sample_rate = 48000

\* C5 as stated: the adjusted position is 48000 and time_formatted is
\* "01:00.000".
C5_AsStated ==
    C5_Case => /\ run.markers[1].position = 48000
               /\ run.markers[1].time_formatted = "01:00.000"

\* C5 amended: the adjusted position is 48000 and time_formatted is
\* "00:01.000" (48000 samples at 48000 Hz are one second).
C5_SongA ==
    C5_Case => /\ run.markers[1].position = 48000
               /\ run.markers[1].time_seconds = <<48000, 48000>>
               /\ run.markers[1].time_formatted = "00:01.000"

C5_Witness == C5_Case /\ run.markers[1].time_formatted = "00:01.000"

\* the line the claim gives for a marker
C6_Line(m) ==
    m.name \o "\t" \o Str(m.position) \o "\t" \o Str(m.duration) \o "\t"
    \o Str(m.sample_rate) \o " Hz" \o "\t" \o "Cue" \o "\t"
    \o (IF m.duration > 0
        THEN "Range: " \o format_time(m.duration, m.sample_rate)
        ELSE "")

\* C6: for a non-empty list the file holds the header line and then one line
\* per marker, in list order: name, position, duration, "<sample_rate> Hz",
\* "Cue" and a description that is empty for duration 0 and "Range: " with
\* the formatted duration otherwise.
C6_CsvRows ==
    (result.done /\ Len(args.markers) > 0) =>
        /\ result.wrote
        /\ LET lines == csv_files[args.output_file]
           IN  /\ Len(lines) = Len(args.markers) + 1
               /\ lines[1] = "Name\tStart\tDuration\tTime Format\tType\tDescription"
               /\ \A i \in 1..Len(args.markers) :
                     lines[i + 1] = C6_Line(args.markers[i])

C6_Witness ==
    /\ result.done
    /\ result.wrote
    /\ Len(args.markers) = 2
    /\ args.markers[1].duration > 0
    /\ args.markers[2].duration = 0
    /\ Len(csv_files[args.output_file]) = 3

\* the clip element has a name and a startPoint attribute
C7_HasBoth(clip) == "name" \in DOMAIN clip /\ "startPoint" \in DOMAIN clip

\* the clip element has a name that is not empty once ".WAV" and ".wav" are
\* removed, and a startPoint that is not empty
C7_Usable(clip) ==
    /\ C7_HasBoth(clip)
    /\ StrRemove(StrRemove(clip.name, ".WAV"), ".wav") # ""
    /\ clip.startPoint # ""

\* the name without its ".wav" suffix, read with or without regard to case
C7_Stripped(name) ==
    {IF EndsWith(StrLower(name), ".wav") THEN SubSeq(name, 1, Len(name) - 4)
     ELSE name,
     IF EndsWith(name, ".wav") THEN SubSeq(name, 1, Len(name) - 4) ELSE name}

C8_Number(s) == IF Len(s) > 0 /\ AllDigits(s) THEN DigitsToInt(s) ELSE -1

\* the time in milliseconds a string <minutes>:<seconds>.<millis> denotes
C8_Millis(t) ==
    LET colon == LastIndex(t, ":")
        dot   == LastIndex(t, ".")
    IN  C8_Number(SubSeq(t, 1, colon - 1)) * 60000
        + C8_Number(SubSeq(t, colon + 1, dot - 1)) * 1000
        + C8_Number(SubSeq(t, dot + 1, Len(t)))

\* the shape MM:SS.mmm with a seconds field below 60
C8_Shape(t) ==
    /\ Len(t) = 9
    /\ SubSeq(t, 3, 3) = ":"
    /\ SubSeq(t, 6, 6) = "."
    /\ C8_Number(SubSeq(t, 1, 2)) >= 0
    /\ C8_Number(SubSeq(t, 4, 5)) >= 0
    /\ C8_Number(SubSeq(t, 4, 5)) < 60
    /\ C8_Number(SubSeq(t, 7, 9)) >= 0

\* C8: for positions p1 <= p2 of one sample rate the formatted time of p1
\* denotes a time not after that of p2, and both have the shape MM:SS.mmm
\* with two-digit minutes and seconds below 60.
C8_MonotoneShape ==
    result.done =>
        /\ C8_Millis(result.t1) <= C8_Millis(result.t2)
        /\ C8_Shape(result.t1)
        /\ C8_Shape(result.t2)

\* C9: a run that writes a CSV writes it next to, and named after, a project
\* whose analysis gives the clip map and WAV list the run used.
C9_CsvOfAnalyzedProject ==
    (run.done /\ run.wrote) =>
        \E p \in SesxExists :
            /\ ParsedDisk[p].clips_info = run.clips
            /\ ParsedDisk[p].wav_files = run.wavs
            /\ OutputFile(p) = run.output_file

RECURSIVE C10_OncePositions(_, _)
\* the raw positions of the files of wavs, each plus its clip's start, once
C10_OncePositions(wavs, clips) ==
    IF Len(wavs) = 0 THEN <<>>
    ELSE LET raw == ReadDisk[Head(wavs)].markers
         IN  [i \in 1..Len(raw) |-> raw[i].position + ClipStart(Head(wavs), clips)]
             \o C10_OncePositions(Tail(wavs), clips)

\* C10: an extract run leaves the stored clip map and WAV list alone, its
\* positions are the raw positions plus the clip start added once, and a run
\* that repeats the clip map and WAV list of the run before it gives the
\* same markers.
C10_RepeatedExtractSame ==
    [][ExtractRan =>
          /\ UNCHANGED <<clips_info, wav_files, all_markers>>
          /\ Positions(run'.markers) = C10_OncePositions(wav_files, clips_info)
          /\ Repeats => run'.markers = run.markers]_vars

C10_Witness ==
    /\ run.done
    /\ run.repeat
    /\ run.wrote
    /\ \E i \in 1..Len(run.markers) :
          /\ run.markers[i].position > 0
          /\ DictGet(run.clips, StrRemove(run.markers[i].filename, ".wav"), 0) > 0

====
